---- MODULE Spec2Model ----
(***************************************************************************)
(* Model of the win-cli-mcp-server command gateway: the command tokenizer, *)
(* the blocklist policy, the allow-list policy and the execute_command /   *)
(* ssh_execute request handlers of CLIServer.                              *)
(*                                                                         *)
(* Strings are sequences of one-character strings, so that every string    *)
(* function of the source is computed character by character.              *)
(* `path` is node's win32 flavour (the server runs on Windows; the tests   *)
(* of the repository expect win32 results).                                *)
(***************************************************************************)
EXTENDS Integers, Sequences, FiniteSets, TLC

VARIABLES
    call,       \* the utility-function call under examination (a record)
    ret,        \* <<>> while the call is pending, <<result>> afterwards
    config,     \* the ServerConfig the CLIServer was constructed with
    cwd,        \* process.cwd()
    local,      \* the execute_command request in the slot and its child process
    remote,     \* the ssh_execute request in the slot
    requests,   \* the number of requests received so far
    commandHistory, \* CLIServer.commandHistory
    connections,    \* SSHConnectionPool.connections: connection id -> session
    sessions        \* the SSHConnection objects and their ssh2 clients

poolVars == <<connections, sessions>>
vars == <<call, ret, config, cwd, local, remote, requests, commandHistory, poolVars>>

----------------------------------------------------------------------------
(* Characters and strings                                                  *)

UpperChars == <<"A","B","C","D","E","F","G","H","I","J","K","L","M",
                "N","O","P","Q","R","S","T","U","V","W","X","Y","Z">>
LowerChars == <<"a","b","c","d","e","f","g","h","i","j","k","l","m",
                "n","o","p","q","r","s","t","u","v","w","x","y","z">>

IsUpper(c) == \E i \in 1..26 : UpperChars[i] = c
IsLowerCh(c) == \E i \in 1..26 : LowerChars[i] = c
IsLetter(c) == IsUpper(c) \/ IsLowerCh(c)

ToLowerChar(c) ==
    IF IsUpper(c) THEN LowerChars[CHOOSE i \in 1..26 : UpperChars[i] = c] ELSE c

ToUpperChar(c) ==
    IF IsLowerCh(c) THEN UpperChars[CHOOSE i \in 1..26 : LowerChars[i] = c] ELSE c

\* String.prototype.toLowerCase
toLowerCase(s) == [i \in 1..Len(s) |-> ToLowerChar(s[i])]

\* String.prototype.startsWith / endsWith / includes
startsWith(s, p) == Len(p) <= Len(s) /\ SubSeq(s, 1, Len(p)) = p
endsWith(s, p) == Len(p) <= Len(s) /\ SubSeq(s, Len(s) - Len(p) + 1, Len(s)) = p
includes(s, p) == \E i \in 1..(Len(s) - Len(p) + 1) : SubSeq(s, i, i + Len(p) - 1) = p

\* the characters String.prototype.trim removes that the inputs can contain
IsWhitespace(c) == c \in {" ", "\t"}

RECURSIVE trimStart(_)
trimStart(s) ==
    IF s # <<>> /\ IsWhitespace(Head(s)) THEN trimStart(Tail(s)) ELSE s

RECURSIVE trimEnd(_)
trimEnd(s) ==
    IF s # <<>> /\ IsWhitespace(s[Len(s)]) THEN trimEnd(SubSeq(s, 1, Len(s) - 1)) ELSE s

\* String.prototype.trim
trim(s) == trimEnd(trimStart(s))

\* Array.prototype.join over the first n elements
RECURSIVE joinFirst(_, _, _)
joinFirst(tokens, n, sep) ==
    IF n = 0 THEN <<>>
    ELSE IF n = 1 THEN tokens[1]
    ELSE joinFirst(tokens, n - 1, sep) \o sep \o tokens[n]

join(tokens, sep) == joinFirst(tokens, Len(tokens), sep)

\* concatenation of a sequence of strings
RECURSIVE Flatten(_)
Flatten(ps) == IF ps = <<>> THEN <<>> ELSE Head(ps) \o Flatten(Tail(ps))

\* all sequences over S of length 0..n
SeqsUpTo(S, n) == UNION {[1..k -> S] : k \in 0..n}

----------------------------------------------------------------------------
(* node:path (win32)                                                       *)

isPathSeparator(c) == c \in {"/", "\\"}

\* path.win32.basename(p): drive prefix skipped, trailing separators dropped,
\* the last component returned
basename(p) ==
    LET start0 == IF Len(p) >= 2 /\ IsLetter(p[1]) /\ p[2] = ":" THEN 2 ELSE 0
        nonSep == {i \in (start0 + 1)..Len(p) : ~isPathSeparator(p[i])}
    IN  IF nonSep = {} THEN <<>>
        ELSE LET end == CHOOSE i \in nonSep : \A j \in nonSep : j <= i
                 seps == {i \in (start0 + 1)..end : isPathSeparator(p[i])}
                 start == IF seps = {} THEN start0 + 1
                          ELSE (CHOOSE i \in seps : \A j \in seps : j <= i) + 1
             IN  SubSeq(p, start, end)

\* the number of leading characters of p, from j on, that the scan
\* `while (j < len && !isPathSeparator(p[j])) j++` leaves behind it
RECURSIVE skipNonSeparators(_, _)
skipNonSeparators(p, j) ==
    IF j < Len(p) /\ ~isPathSeparator(p[j + 1]) THEN skipNonSeparators(p, j + 1) ELSE j

RECURSIVE skipSeparators(_, _)
skipSeparators(p, j) ==
    IF j < Len(p) /\ isPathSeparator(p[j + 1]) THEN skipSeparators(p, j + 1) ELSE j

\* the segments between separators, empty ones included
RECURSIVE splitSegments(_, _, _)
splitSegments(p, segs, cur) ==
    IF p = <<>> THEN Append(segs, cur)
    ELSE IF isPathSeparator(Head(p)) THEN splitSegments(Tail(p), Append(segs, cur), <<>>)
    ELSE splitSegments(Tail(p), segs, Append(cur, Head(p)))

\* normalizeString: "." and empty segments dropped, ".." removes the segment
\* before it (kept only above the root of a relative path)
RECURSIVE resolveSegments(_, _, _, _)
resolveSegments(segs, k, stack, allowAboveRoot) ==
    IF k > Len(segs) THEN stack
    ELSE IF segs[k] = <<>> \/ segs[k] = <<".">>
         THEN resolveSegments(segs, k + 1, stack, allowAboveRoot)
    ELSE IF segs[k] = <<".", ".">>
         THEN IF stack # <<>> /\ stack[Len(stack)] # <<".", ".">>
              THEN resolveSegments(segs, k + 1, SubSeq(stack, 1, Len(stack) - 1), allowAboveRoot)
              ELSE IF allowAboveRoot
              THEN resolveSegments(segs, k + 1, Append(stack, segs[k]), allowAboveRoot)
              ELSE resolveSegments(segs, k + 1, stack, allowAboveRoot)
    ELSE resolveSegments(segs, k + 1, Append(stack, segs[k]), allowAboveRoot)

normalizeString(p, allowAboveRoot) ==
    join(resolveSegments(splitSegments(p, <<>>, <<>>), 1, <<>>, allowAboveRoot), <<"\\">>)

\* the root of a path of two or more characters: its device, the number of
\* characters the root takes, whether the path is absolute; whole is TRUE when
\* the path is a bare UNC root, which normalize returns at once
pathRoot(p) ==
    LET len == Len(p)
        plain == [whole |-> FALSE, hasDevice |-> FALSE, device |-> <<>>, rootEnd |-> 0,
                  isAbsolute |-> TRUE]
    IN  IF isPathSeparator(p[1])
        THEN IF isPathSeparator(p[2])
             THEN LET j1 == skipNonSeparators(p, 2)
                      j2 == skipSeparators(p, j1)
                      j3 == skipNonSeparators(p, j2)
                      firstPart == SubSeq(p, 3, j1)
                  IN  IF j1 < len /\ j1 # 2 /\ j2 < len /\ j2 # j1
                      THEN IF j3 = len
                           THEN [plain EXCEPT !.whole = TRUE,
                                   !.device = <<"\\", "\\">> \o firstPart \o <<"\\">>
                                              \o SubSeq(p, j2 + 1, len) \o <<"\\">>]
                           ELSE IF j3 # j2
                           THEN [plain EXCEPT !.hasDevice = TRUE, !.rootEnd = j3,
                                   !.device = <<"\\", "\\">> \o firstPart \o <<"\\">>
                                              \o SubSeq(p, j2 + 1, j3)]
                           ELSE plain
                      ELSE plain
             ELSE [plain EXCEPT !.rootEnd = 1]
        ELSE IF IsLetter(p[1]) /\ p[2] = ":"
        THEN IF len > 2 /\ isPathSeparator(p[3])
             THEN [plain EXCEPT !.hasDevice = TRUE, !.device = SubSeq(p, 1, 2), !.rootEnd = 3]
             ELSE [plain EXCEPT !.hasDevice = TRUE, !.device = SubSeq(p, 1, 2), !.rootEnd = 2,
                     !.isAbsolute = FALSE]
        ELSE [plain EXCEPT !.isAbsolute = FALSE]

\* path.win32.normalize
normalize(p) ==
    IF Len(p) = 0 THEN <<".">>
    ELSE IF Len(p) = 1 THEN (IF p = <<"/">> THEN <<"\\">> ELSE p)
    ELSE LET root == pathRoot(p)
             tail0 == IF root.rootEnd < Len(p)
                      THEN normalizeString(SubSeq(p, root.rootEnd + 1, Len(p)), ~root.isAbsolute)
                      ELSE <<>>
             tail1 == IF tail0 = <<>> /\ ~root.isAbsolute THEN <<".">> ELSE tail0
             tail == IF tail1 # <<>> /\ isPathSeparator(p[Len(p)])
                     THEN tail1 \o <<"\\">> ELSE tail1
         IN  IF root.whole THEN root.device
             ELSE IF ~root.hasDevice
             THEN (IF root.isAbsolute THEN <<"\\">> \o tail ELSE tail)
             ELSE IF root.isAbsolute THEN root.device \o <<"\\">> \o tail
             ELSE root.device \o tail

\* path.win32.isAbsolute
isAbsolute(p) ==
    /\ Len(p) > 0
    /\ \/ isPathSeparator(p[1])
       \/ Len(p) > 2 /\ IsLetter(p[1]) /\ p[2] = ":" /\ isPathSeparator(p[3])

----------------------------------------------------------------------------
(* Regular expressions: the subset of RegExp syntax that the patterns built *)
(* by validation.ts can contain over the modelled alphabets: literals,      *)
(* backslash escapes, the dot, alternation and the ^ / $ assertions.  An    *)
(* unescaped parenthesis is an unterminated / unmatched group (there is no  *)
(* balanced pair in the modelled patterns) and makes the constructor throw. *)

\* the pattern as a sequence of alternatives, each a sequence of atoms;
\* ok is FALSE when the RegExp constructor throws a SyntaxError
RECURSIVE regexParse(_, _, _, _)
regexParse(p, i, alts, cur) ==
    IF i > Len(p) THEN [ok |-> TRUE, alts |-> Append(alts, cur)]
    ELSE IF p[i] = "\\" THEN
        IF i = Len(p) THEN [ok |-> FALSE, alts |-> <<>>]
        ELSE regexParse(p, i + 2, alts, Append(cur, [t |-> "lit", c |-> p[i + 1]]))
    ELSE IF p[i] = "|" THEN regexParse(p, i + 1, Append(alts, cur), <<>>)
    ELSE IF p[i] \in {"(", ")"} THEN [ok |-> FALSE, alts |-> <<>>]
    ELSE IF p[i] = "." THEN regexParse(p, i + 1, alts, Append(cur, [t |-> "any", c |-> "."]))
    ELSE IF p[i] = "^" THEN regexParse(p, i + 1, alts, Append(cur, [t |-> "bol", c |-> "^"]))
    ELSE IF p[i] = "$" THEN regexParse(p, i + 1, alts, Append(cur, [t |-> "eol", c |-> "$"]))
    ELSE regexParse(p, i + 1, alts, Append(cur, [t |-> "lit", c |-> p[i]]))

RECURSIVE regexMatchAt(_, _, _, _, _)
regexMatchAt(atoms, k, s, i, ignoreCase) ==
    IF k > Len(atoms) THEN TRUE
    ELSE CASE atoms[k].t = "bol" -> i = 1 /\ regexMatchAt(atoms, k + 1, s, i, ignoreCase)
           [] atoms[k].t = "eol" -> i = Len(s) + 1 /\ regexMatchAt(atoms, k + 1, s, i, ignoreCase)
           [] atoms[k].t = "any" -> i <= Len(s) /\ regexMatchAt(atoms, k + 1, s, i + 1, ignoreCase)
           [] atoms[k].t = "lit" ->
                /\ i <= Len(s)
                /\ IF ignoreCase THEN ToLowerChar(s[i]) = ToLowerChar(atoms[k].c)
                                 ELSE s[i] = atoms[k].c
                /\ regexMatchAt(atoms, k + 1, s, i + 1, ignoreCase)

\* new RegExp(p, ignoreCase ? 'i' : '').test(s)
regexTest(p, ignoreCase, s) ==
    LET re == regexParse(p, 1, <<>>, <<>>)
    IN  IF ~re.ok THEN [threw |-> TRUE, value |-> FALSE]
        ELSE [threw |-> FALSE,
              value |-> \E a \in 1..Len(re.alts) : \E i \in 1..(Len(s) + 1) :
                            regexMatchAt(re.alts[a], 1, s, i, ignoreCase)]

----------------------------------------------------------------------------
(* src/utils/validation.ts: the blocklist policy                           *)

ExeSuffixes == {<<".", "e", "x", "e">>, <<".", "c", "m", "d">>, <<".", "b", "a", "t">>}

\* /\.(exe|cmd|bat)$/i.test(s)
hasExeSuffix(s) == \E x \in ExeSuffixes : endsWith(toLowerCase(s), x)

extractCommandName(command) ==
    LET base == basename(command)
    IN  toLowerCase(IF hasExeSuffix(base) THEN SubSeq(base, 1, Len(base) - 4) ELSE base)

isCommandBlockedBySubstring(command, blockedCommands) ==
    LET commandName == extractCommandName(toLowerCase(command))
    IN  \E k \in 1..Len(blockedCommands) :
            includes(commandName, toLowerCase(blockedCommands[k]))

isCommandBlocked(command, blockedCommands) ==
    LET commandName == extractCommandName(toLowerCase(command))
    IN  \E k \in 1..Len(blockedCommands) :
            LET blocked == toLowerCase(blockedCommands[k])
            IN  \/ commandName = blocked
                \/ \E x \in ExeSuffixes : commandName = blocked \o x

\* args.some(arg => blockedArguments.some(blocked => new RegExp(...).test(arg))):
\* the pairs are visited in order and the first match or SyntaxError ends the visit
RECURSIVE argumentScan(_, _, _, _)
argumentScan(args, blockedArguments, i, j) ==
    IF i > Len(args) THEN [threw |-> FALSE, value |-> FALSE]
    ELSE IF j > Len(blockedArguments) THEN argumentScan(args, blockedArguments, i + 1, 1)
    ELSE LET r == regexTest(<<"^">> \o blockedArguments[j] \o <<"$">>, TRUE, args[i])
         IN  IF r.threw \/ r.value THEN r
             ELSE argumentScan(args, blockedArguments, i, j + 1)

isArgumentBlocked(args, blockedArguments) == argumentScan(args, blockedArguments, 1, 1)

RegexSpecialChars == {".", "*", "+", "?", "^", "$", "{", "}", "(", ")", "|", "[", "]", "\\"}

escapeOperatorNever(op) == op

\* op.replace(/[.*+?^${}()|[\]\\]/g, '\\$&')
RECURSIVE escapeOperator(_)
escapeOperator(op) ==
    IF op = <<>> THEN <<>>
    ELSE (IF Head(op) \in RegexSpecialChars THEN <<"\\", Head(op)>> ELSE <<Head(op)>>)
            \o escapeOperator(Tail(op))

\* TRUE iff validateShellOperators throws
validateShellOperators(command, shellConfig) ==
    IF ~shellConfig.hasBlockedOperators \/ Len(shellConfig.blockedOperators) = 0 THEN FALSE
    ELSE LET operatorPattern ==
                 join([k \in 1..Len(shellConfig.blockedOperators) |->
                          escapeOperator(shellConfig.blockedOperators[k])], <<"|">>)
             r == regexTest(operatorPattern, FALSE, command)
         IN  r.threw \/ r.value

----------------------------------------------------------------------------
(* src/utils/validation.ts: parseCommand                                   *)

\* the character loop: tokens, current, inQuotes and quoteChar after position i
RECURSIVE tokenize(_, _, _, _, _, _)
tokenize(fullCommand, i, tokens, current, inQuotes, quoteChar) ==
    IF i > Len(fullCommand)
    THEN IF current # <<>> THEN Append(tokens, current) ELSE tokens
    ELSE LET char == fullCommand[i]
         IN  IF char \in {"\"", "'"} /\ (~inQuotes \/ char = quoteChar)
             THEN IF inQuotes
                  THEN tokenize(fullCommand, i + 1, Append(tokens, current), <<>>, FALSE, "")
                  ELSE tokenize(fullCommand, i + 1, tokens, current, TRUE, char)
             ELSE IF char = " " /\ ~inQuotes
             THEN IF current # <<>>
                  THEN tokenize(fullCommand, i + 1, Append(tokens, current), <<>>, inQuotes, quoteChar)
                  ELSE tokenize(fullCommand, i + 1, tokens, current, inQuotes, quoteChar)
             ELSE tokenize(fullCommand, i + 1, tokens, Append(current, char), inQuotes, quoteChar)

\* the while loop that looks for a complete command path; i counts the
\* tokens collected in commandTokens
RECURSIVE findCommandPath(_, _)
findCommandPath(tokens, i) ==
    IF i > Len(tokens)
    THEN [command |-> join(tokens, <<" ">>), args |-> <<>>]
    ELSE LET potentialCommand == joinFirst(tokens, i, <<" ">>)
         IN  IF hasExeSuffix(potentialCommand)
                \/ (~includes(potentialCommand, <<"\\">>) /\ i = 1)
             THEN [command |-> potentialCommand, args |-> SubSeq(tokens, i + 1, Len(tokens))]
             ELSE IF includes(potentialCommand, <<"\\">>)
             THEN findCommandPath(tokens, i + 1)
             ELSE [command |-> tokens[1], args |-> Tail(tokens)]

parseCommand(input) ==
    LET fullCommand == trim(input)
        tokens == tokenize(fullCommand, 1, <<>>, <<>>, FALSE, "")
    IN  IF fullCommand = <<>> \/ tokens = <<>>
        THEN [command |-> <<>>, args |-> <<>>]
        ELSE IF ~includes(tokens[1], <<" ">>) /\ ~includes(tokens[1], <<"\\">>)
        THEN [command |-> tokens[1], args |-> Tail(tokens)]
        ELSE findCommandPath(tokens, 1)

----------------------------------------------------------------------------
(* src/utils/validation.ts: the allow-list policy                          *)

isPathAllowed(testPath, allowedPaths) ==
    LET normalizedPath == toLowerCase(normalize(testPath))
    IN  \E k \in 1..Len(allowedPaths) :
            startsWith(normalizedPath, toLowerCase(normalize(allowedPaths[k])))

----------------------------------------------------------------------------
(* Calls of the utility functions: a call is drawn from a bounded set of    *)
(* inputs in the initial state and the function is applied by one action.   *)

NoCall == [op |-> "none"]

PoolIds == {"srv", "alt"}
MaxSessionObjects == 2
SessionObjects == 1..MaxSessionObjects

\* an SSHConnection that was not constructed yet.  The fields of the class:
\* isConnected, reconnectTimer ("null", "live": a handle whose timer is
\* pending, "dead": a handle whose timer fired or was cleared), recent
\* (Date.now() - lastActivity is inside the 30 minute window).  Its ssh2
\* client: open (the transport is established), connecting (connect attempts
\* in flight), events (transport events emitted and not yet delivered), execs
\* (remote commands in flight), liveTimers (reconnect timers pending in the
\* event loop).  Its callers: awaitingGet / awaitingExec (getConnection /
\* executeCommand calls awaiting connect()).  What happened to it: settled (a
\* connect attempt ended), dropped (the established transport was lost and
\* not established again), autoAttempt (the attempt the reconnect timer made
\* since the last drop or on-demand connect: "none", "running", "failed"),
\* noAuth (a connect() call was rejected with 'No authentication method
\* provided'), lastExec (how the executeCommand promise that settled last
\* since the last call ended: "none", "resolved", "rejected").
NoSession ==
    [created |-> FALSE, id |-> "", isConnected |-> FALSE, reconnectTimer |-> "null",
     recent |-> TRUE, open |-> FALSE, connecting |-> 0, events |-> <<>>, execs |-> 0,
     liveTimers |-> 0, awaitingGet |-> 0, awaitingExec |-> 0,
     settled |-> FALSE, dropped |-> FALSE, autoAttempt |-> "none",
     noAuth |-> FALSE, lastExec |-> "none"]

EmptyPool == [id \in PoolIds |-> 0]
NoSessions == [o \in SessionObjects |-> NoSession]

MaxParsePieces == 4
ParsePieces == {<<"a">>, <<"\\">>, <<" ">>, <<"\t">>, <<"\"">>, <<"'">>, <<".", "e", "x", "e">>}
ParseInputs == {Flatten(ps) : ps \in SeqsUpTo(ParsePieces, MaxParsePieces)}

\* the server takes no part in the checks of the utility functions
ServerIdle ==
    /\ config = [none |-> TRUE]
    /\ cwd = <<>>
    /\ local = [status |-> "none"]
    /\ remote = [status |-> "none"]
    /\ requests = 0
    /\ commandHistory = <<>>
    /\ connections = EmptyPool
    /\ sessions = NoSessions

InitParse ==
    /\ call \in {[op |-> "parseCommand", fullCommand |-> c] : c \in ParseInputs}
    /\ ret = <<>>
    /\ ServerIdle

CallParseCommand ==
    /\ call.op = "parseCommand"
    /\ ret = <<>>
    /\ ret' = <<parseCommand(call.fullCommand)>>
    /\ UNCHANGED <<poolVars, call, config, cwd, local, remote, requests, commandHistory>>

SpecParse == InitParse /\ [][CallParseCommand]_vars

----------------------------------------------------------------------------
(* Claims about parseCommand (SpecParse)                                    *)

ParseDone == call.op = "parseCommand" /\ ret # <<>>

\* the tokens of the trimmed command as the tokenizer loop leaves them
CodeTokens(input) == tokenize(trim(input), 1, <<>>, <<>>, FALSE, "")

\* the least n such that the first n tokens, joined by single spaces, end in
\* .exe, .cmd or .bat; 0 when there is none
FirstExeJoin(tokens) ==
    LET hits == {n \in 1..Len(tokens) : hasExeSuffix(joinFirst(tokens, n, <<" ">>))}
    IN  IF hits = {} THEN 0 ELSE CHOOSE n \in hits : \A m \in hits : n <= m

\* C7: when the first token contains a path separator, tokens are joined into
\* the executable only until the accumulated text ends in .exe/.cmd/.bat and
\* the remaining tokens are the arguments; when no accumulated prefix ends in
\* such a suffix, the first token alone is the executable and all remaining
\* tokens are the arguments.
C7_PathJoin ==
    ParseDone =>
        LET tokens == CodeTokens(call.fullCommand)
            n == FirstExeJoin(tokens)
        IN  (tokens # <<>> /\ \E i \in 1..Len(tokens[1]) : isPathSeparator(tokens[1][i])) =>
                IF n > 0
                THEN ret[1] = [command |-> joinFirst(tokens, n, <<" ">>),
                               args |-> SubSeq(tokens, n + 1, Len(tokens))]
                ELSE ret[1] = [command |-> tokens[1], args |-> Tail(tokens)]

\* The tokens the claim describes: the trimmed command is split at whitespace
\* outside quoted spans, the delimiting quote characters are dropped, a span
\* ends at the next quote of the kind that opened it.  A token exists once it
\* holds a character or a closed (possibly empty) quoted span.
RECURSIVE QuoteAwareTokens(_, _, _, _, _, _)
QuoteAwareTokens(s, i, tokens, current, started, quote) ==
    IF i > Len(s) THEN (IF started THEN Append(tokens, current) ELSE tokens)
    ELSE IF quote = "" /\ IsWhitespace(s[i])
         THEN QuoteAwareTokens(s, i + 1, IF started THEN Append(tokens, current) ELSE tokens,
                               <<>>, FALSE, "")
    ELSE IF quote = "" /\ s[i] \in {"\"", "'"}
         THEN QuoteAwareTokens(s, i + 1, tokens, current, started, s[i])
    ELSE IF quote # "" /\ s[i] = quote
         THEN QuoteAwareTokens(s, i + 1, tokens, current, TRUE, "")
    ELSE QuoteAwareTokens(s, i + 1, tokens, Append(current, s[i]), TRUE, quote)

\* C8: parseCommand splits the command at whitespace outside quoted spans,
\* quote characters are never part of a token, the first token is the
\* executable and the rest, in order, are the arguments (stated for commands
\* whose first token holds no backslash, the other case being C7's).
C8_QuoteAwareSplit ==
    ParseDone =>
        LET expected == QuoteAwareTokens(trim(call.fullCommand), 1, <<>>, <<>>, FALSE, "")
        IN  IF expected = <<>> THEN ret[1] = [command |-> <<>>, args |-> <<>>]
            ELSE ~includes(expected[1], <<"\\">>) =>
                    ret[1] = [command |-> expected[1], args |-> Tail(expected)]

----------------------------------------------------------------------------
(* isCommandBlocked (SpecCommandBlocked)                                    *)

MaxNamePieces == 4
NamePieces == {<<"r">>, <<"m">>, <<"w">>, <<"\\">>, <<"c", ":">>,
               <<".", "e", "x", "e">>, <<".", "C", "m", "d">>, <<".", "c", "o", "m">>}
CommandTokens == {Flatten(ps) : ps \in SeqsUpTo(NamePieces, MaxNamePieces)}
BlockedCommandLists ==
    {<<>>, << <<"r", "m">> >>, << <<"w">>, <<"R", "m">> >>}

InitCommandBlocked ==
    /\ call \in {[op |-> "isCommandBlocked", command |-> t, blockedCommands |-> B] :
                    t \in CommandTokens, B \in BlockedCommandLists}
    /\ ret = <<>>
    /\ ServerIdle

CallIsCommandBlocked ==
    /\ call.op = "isCommandBlocked"
    /\ ret = <<>>
    /\ ret' = <<isCommandBlocked(call.command, call.blockedCommands)>>
    /\ UNCHANGED <<poolVars, call, config, cwd, local, remote, requests, commandHistory>>

SpecCommandBlocked == InitCommandBlocked /\ [][CallIsCommandBlocked]_vars

\* The base name the claim describes: the drive prefix and the directory
\* components removed (the last non-empty component is left), one trailing
\* .exe/.cmd/.bat removed, lower-cased.
LastComponent(t) ==
    LET rest == IF Len(t) >= 2 /\ IsLetter(t[1]) /\ t[2] = ":" THEN SubSeq(t, 3, Len(t)) ELSE t
        segs == SelectSeq(splitSegments(rest, <<>>, <<>>), LAMBDA g : g # <<>>)
    IN  IF segs = <<>> THEN <<>> ELSE segs[Len(segs)]

BaseNameOf(t) ==
    LET last == toLowerCase(LastComponent(t))
    IN  IF \E x \in ExeSuffixes : endsWith(last, x) THEN SubSeq(last, 1, Len(last) - 4) ELSE last

\* C6: isCommandBlocked(t, B) is true iff the base name of t equals the
\* lower-cased form of some entry of B, or that entry with .exe, .cmd or .bat
\* appended; a blocked name that is only a substring of the base name, or
\* another extension, never blocks.
C6_WholeNameMatch ==
    (call.op = "isCommandBlocked" /\ ret # <<>>) =>
        (ret[1] <=> \E k \in 1..Len(call.blockedCommands) :
                        LET b == toLowerCase(call.blockedCommands[k])
                        IN  BaseNameOf(call.command) \in {b} \cup {b \o x : x \in ExeSuffixes})

\* a path to a blocked program with an extension in another letter case is
\* found blocked
C6_Witness ==
    /\ call.op = "isCommandBlocked" /\ ret = <<TRUE>>
    /\ call.command = <<"\\", "r", "m", ".", "C", "m", "d">>
    /\ call.blockedCommands = << <<"w">>, <<"R", "m">> >>

----------------------------------------------------------------------------
(* validateShellOperators (SpecOperators)                                   *)

MaxOperatorPieces == 4
OperatorPieces == {<<"a">>, <<" ">>, <<"\"">>, <<"|">>, <<"&">>, <<";">>, <<".">>}
OperatorCommands == {Flatten(ps) : ps \in SeqsUpTo(OperatorPieces, MaxOperatorPieces)}
ShellConfigs ==
    {[hasBlockedOperators |-> FALSE, blockedOperators |-> <<>>],
     [hasBlockedOperators |-> TRUE, blockedOperators |-> <<>>],
     [hasBlockedOperators |-> TRUE, blockedOperators |-> << <<"&">>, <<";">> >>],
     [hasBlockedOperators |-> TRUE, blockedOperators |-> << <<"&">>, <<"|">>, <<";">> >>],
     [hasBlockedOperators |-> TRUE, blockedOperators |-> << <<"&", "&">>, <<".">> >>]}

InitOperators ==
    /\ call \in {[op |-> "validateShellOperators", command |-> c, shellConfig |-> sc] :
                    c \in OperatorCommands, sc \in ShellConfigs}
    /\ ret = <<>>
    /\ ServerIdle

CallValidateShellOperators ==
    /\ call.op = "validateShellOperators"
    /\ ret = <<>>
    /\ ret' = <<validateShellOperators(call.command, call.shellConfig)>>
    /\ UNCHANGED <<poolVars, call, config, cwd, local, remote, requests, commandHistory>>

SpecOperators == InitOperators /\ [][CallValidateShellOperators]_vars

\* C4: validateShellOperators fails iff the profile declares a non-empty
\* blockedOperators set and the raw command contains one of those operators
\* anywhere; an operator left out of the set never causes a failure.
C4_FailsIffContainsOperator ==
    (call.op = "validateShellOperators" /\ ret # <<>>) =>
        (ret[1] <=> /\ call.shellConfig.hasBlockedOperators
                    /\ \E k \in 1..Len(call.shellConfig.blockedOperators) :
                          includes(call.command, call.shellConfig.blockedOperators[k]))

\* a pipe inside a quoted span is rejected when | is blocked
C4_Witness ==
    /\ call.op = "validateShellOperators"
    /\ call.command = <<"\"", "|", "\"">>
    /\ ret = <<TRUE>>
    /\ call.shellConfig.blockedOperators = << <<"&">>, <<"|">>, <<";">> >>

----------------------------------------------------------------------------
(* isArgumentBlocked (SpecArgumentBlocked)                                  *)

MaxArgumentPieces == 3
ArgumentPieces == {<<"-", "r">>, <<"f">>, <<"F">>, <<"o">>}
PatternPieces == {<<"-", "r">>, <<"f">>, <<".">>, <<"|">>, <<"(">>}
ArgumentTokens == {Flatten(ps) : ps \in SeqsUpTo(ArgumentPieces, MaxArgumentPieces)}
ArgumentPatterns == {Flatten(ps) : ps \in SeqsUpTo(PatternPieces, MaxArgumentPieces)}
ArgumentLists == {<<>>} \cup {<<t>> : t \in ArgumentTokens} \cup {<<<<"x">>, t>> : t \in ArgumentTokens}
PatternLists == {<<q>> : q \in ArgumentPatterns} \cup {<<<<"z">>, q>> : q \in ArgumentPatterns}

InitArgumentBlocked ==
    /\ call \in {[op |-> "isArgumentBlocked", args |-> a, blockedArguments |-> B] :
                    a \in ArgumentLists, B \in PatternLists}
    /\ ret = <<>>
    /\ ServerIdle

CallIsArgumentBlocked ==
    /\ call.op = "isArgumentBlocked"
    /\ ret = <<>>
    /\ ret' = <<isArgumentBlocked(call.args, call.blockedArguments)>>
    /\ UNCHANGED <<poolVars, call, config, cwd, local, remote, requests, commandHistory>>

SpecArgumentBlocked == InitArgumentBlocked /\ [][CallIsArgumentBlocked]_vars

\* C5: isArgumentBlocked is true iff some single token equals some pattern,
\* both compared case-insensitively over the entire token, whatever characters
\* the pattern contains; the call never fails with an exception.
C5_LiteralWholeTokenMatch ==
    (call.op = "isArgumentBlocked" /\ ret # <<>>) =>
        /\ ~ret[1].threw
        /\ ret[1].value <=>
              \E i \in 1..Len(call.args) : \E j \in 1..Len(call.blockedArguments) :
                  toLowerCase(call.args[i]) = toLowerCase(call.blockedArguments[j])

----------------------------------------------------------------------------
(* isPathAllowed (SpecPathAllowed)                                          *)

MaxPathPieces == 4
PathPieces == {<<"C", ":", "\\">>, <<"a">>, <<"A">>, <<"b">>, <<"\\">>, <<"/">>, <<".", ".">>}
PathInputs == {Flatten(ps) : ps \in SeqsUpTo(PathPieces, MaxPathPieces)}
AllowedPathLists ==
    {<<>>,
     << <<"C", ":", "\\", "a">> >>,
     << <<"C", ":", "\\", "b">>, <<"C", ":", "\\", "A", "\\", "b">> >>,
     << <<"C", ":", "\\", "a", "\\">> >>}

InitPathAllowed ==
    /\ call \in {[op |-> "isPathAllowed", testPath |-> t, allowedPaths |-> R] :
                    t \in PathInputs, R \in AllowedPathLists}
    /\ ret = <<>>
    /\ ServerIdle

CallIsPathAllowed ==
    /\ call.op = "isPathAllowed"
    /\ ret = <<>>
    /\ ret' = <<isPathAllowed(call.testPath, call.allowedPaths)>>
    /\ UNCHANGED <<poolVars, call, config, cwd, local, remote, requests, commandHistory>>

SpecPathAllowed == InitPathAllowed /\ [][CallIsPathAllowed]_vars

\* C3: isPathAllowed(p, R) is true iff, after normalization and case folding,
\* p equals some root r of R or starts with r followed by a path separator; a
\* candidate that shares only a partial last segment with a root is not
\* allowed (stated for roots written without a trailing separator).
C3_SegmentBoundary ==
    (/\ call.op = "isPathAllowed" /\ ret # <<>>
     /\ \A k \in 1..Len(call.allowedPaths) :
            ~isPathSeparator(call.allowedPaths[k][Len(call.allowedPaths[k])])) =>
        LET np == toLowerCase(normalize(call.testPath))
        IN  ret[1] <=> \E k \in 1..Len(call.allowedPaths) :
                          LET nr == toLowerCase(normalize(call.allowedPaths[k]))
                          IN  np = nr \/ startsWith(np, nr \o <<"\\">>)

----------------------------------------------------------------------------
(* normalizeWindowsPath (SpecNormalize)                                     *)

\* inputPath.replace(/\//g, '\\')
toBackslashes(s) == [i \in 1..Len(s) |-> IF s[i] = "/" THEN "\\" ELSE s[i]]

\* validation.ts normalizeWindowsPath
normalizeWindowsPath(inputPath) ==
    LET normalized == toBackslashes(inputPath)
        len == Len(normalized)
    IN  IF len >= 3 /\ normalized[1] = "\\" /\ IsLetter(normalized[2]) /\ normalized[3] = "\\"
        THEN normalize(<<ToUpperChar(normalized[2]), ":", "\\">> \o SubSeq(normalized, 4, len))
        ELSE IF len >= 4 /\ IsLetter(normalized[1]) /\ normalized[2] = ":"
                /\ normalized[3] = "\\"
        THEN normalize(normalized)
        ELSE IF len >= 1 /\ normalized[1] = "\\"
        THEN normalize(<<"C", ":">> \o normalized)
        ELSE normalize(normalized)

MaxNormalizePieces == 5
NormalizePieces ==
    {<<"C", ":">>, <<"c", ":">>, <<"\\">>, <<"/">>, <<"c">>, <<"a", "b">>, <<".">>}
NormalizeInputs == {Flatten(ps) : ps \in SeqsUpTo(NormalizePieces, MaxNormalizePieces)}

\* the spellings of the location C:\ab\c : the drive as C: or c: with either
\* separator, as a POSIX-style prefix, or left out (a leading separator);
\* one or two separators of either kind between the components
DriveSpellings ==
    {<<"C", ":", "\\">>, <<"C", ":", "/">>, <<"c", ":", "\\">>, <<"c", ":", "/">>,
     <<"/", "c", "/">>, <<"/", "C", "/">>, <<"\\", "c", "\\">>, <<"\\">>, <<"/">>}
SeparatorSpellings == {<<"\\">>, <<"/">>, <<"\\", "\\">>, <<"/", "/">>}
Spellings ==
    {d \o <<"a", "b">> \o s \o <<"c">> : d \in DriveSpellings, s \in SeparatorSpellings}
Canonical == <<"C", ":", "\\", "a", "b", "\\", "c">>

InitNormalize ==
    /\ call \in {[op |-> "normalizeWindowsPath", inputPath |-> q] :
                    q \in NormalizeInputs \cup Spellings}
    /\ ret = <<>>
    /\ ServerIdle

CallNormalizeWindowsPath ==
    /\ call.op = "normalizeWindowsPath"
    /\ ret = <<>>
    /\ ret' = <<normalizeWindowsPath(call.inputPath)>>
    /\ UNCHANGED <<poolVars, call, config, cwd, local, remote, requests, commandHistory>>

SpecNormalize == InitNormalize /\ [][CallNormalizeWindowsPath]_vars

NormalizeDone == call.op = "normalizeWindowsPath" /\ ret # <<>>

C28_OneCanonicalString ==
    (NormalizeDone /\ call.inputPath \in Spellings) => ret[1] = Canonical

\* C29: the result for a path that starts with two separators starts with
\* two separators too: no drive letter is put before it and its first
\* component is not taken for a drive.
C29_UncStaysUnc ==
    (/\ NormalizeDone /\ Len(call.inputPath) >= 3
     /\ isPathSeparator(call.inputPath[1]) /\ isPathSeparator(call.inputPath[2])
     /\ ~isPathSeparator(call.inputPath[3])) =>
        (Len(ret[1]) >= 2 /\ ret[1][1] = "\\" /\ ret[1][2] = "\\")

----------------------------------------------------------------------------
(* normalizeAllowedPaths (SpecAllowedPaths)                                 *)

\* result.splice(i, 1) for every i with result[i] nested under dir
RECURSIVE removeNested(_, _)
removeNested(result, dir) ==
    IF result = <<>> THEN <<>>
    ELSE IF startsWith(Head(result), dir \o <<"\\">>) THEN removeNested(Tail(result), dir)
    ELSE <<Head(result)>> \o removeNested(Tail(result), dir)

\* the loop of normalizeAllowedPaths without the removal of the entries
\* nested under a new one
RECURSIVE keepRootsWithoutRemoval(_, _)
keepRootsWithoutRemoval(normalized, result) ==
    IF normalized = <<>> THEN result
    ELSE LET dir == Head(normalized)
         IN  IF \E k \in 1..Len(result) : result[k] = dir
             THEN keepRootsWithoutRemoval(Tail(normalized), result)
             ELSE IF \E k \in 1..Len(result) : startsWith(dir, result[k] \o <<"\\">>)
             THEN keepRootsWithoutRemoval(Tail(normalized), result)
             ELSE keepRootsWithoutRemoval(Tail(normalized), Append(result, dir))

\* the loop `for (const dir of normalized)` of normalizeAllowedPaths
RECURSIVE keepRoots(_, _)
keepRoots(normalized, result) ==
    IF normalized = <<>> THEN result
    ELSE LET dir == Head(normalized)
         IN  IF \E k \in 1..Len(result) : result[k] = dir
             THEN keepRoots(Tail(normalized), result)
             ELSE IF \E k \in 1..Len(result) : startsWith(dir, result[k] \o <<"\\">>)
             THEN keepRoots(Tail(normalized), result)
             ELSE keepRoots(Tail(normalized), Append(removeNested(result, dir), dir))

\* validation.ts normalizeAllowedPaths
normalizeAllowedPaths(paths) ==
    keepRoots([k \in 1..Len(paths) |-> toLowerCase(normalizeWindowsPath(paths[k]))], <<>>)

MaxRoots == 3
RootSpellings ==
    {<<"C", ":", "\\", "t">>, <<"c", ":", "/", "T">>, <<"/", "c", "/", "t">>,
     <<"C", ":", "\\", "t", "\\">>, <<"C", ":", "\\", "t", "\\", "x">>,
     <<"c", ":", "\\", "T", "/", "x", "/">>, <<"C", ":", "\\", "t", "x">>,
     <<"C", ":", "\\">>, <<"/", "d", "/", "p">>, <<"D", ":", "\\", "p", "\\", "q">>,
     <<".", "/", "c", ":">>}
RootLists == SeqsUpTo(RootSpellings, MaxRoots)

InitAllowedPaths ==
    /\ call \in {[op |-> "normalizeAllowedPaths", paths |-> R] : R \in RootLists}
    /\ ret = <<>>
    /\ ServerIdle

CallNormalizeAllowedPaths ==
    /\ call.op = "normalizeAllowedPaths"
    /\ ret = <<>>
    /\ ret' = <<normalizeAllowedPaths(call.paths)>>
    /\ UNCHANGED <<poolVars, call, config, cwd, local, remote, requests, commandHistory>>

SpecAllowedPaths == InitAllowedPaths /\ [][CallNormalizeAllowedPaths]_vars

AllowedPathsDone == call.op = "normalizeAllowedPaths" /\ ret # <<>>

\* a root without its trailing separators (the root of a drive keeps its own)
RECURSIVE stripTrailingSeparators(_)
stripTrailingSeparators(r) ==
    IF Len(r) > 3 /\ isPathSeparator(r[Len(r)])
    THEN stripTrailingSeparators(SubSeq(r, 1, Len(r) - 1))
    ELSE r

\* the directory anc is the directory d or a directory above it
IsAncestorOrSelf(anc, d) ==
    LET a == stripTrailingSeparators(anc)
        b == stripTrailingSeparators(d)
    IN  \/ a = b
        \/ startsWith(b, IF isPathSeparator(a[Len(a)]) THEN a ELSE a \o <<"\\">>)

\* C24: the roots normalizeAllowedPaths returns contain no duplicate and no
\* two entries where one is the other's directory or a directory above it,
\* whatever the trailing separators, case and slash style of the input.
C24_NoAncestorPair ==
    AllowedPathsDone =>
        \A i, j \in 1..Len(ret[1]) :
            i # j => ~IsAncestorOrSelf(ret[1][i], ret[1][j])

Range(s) == {s[k] : k \in 1..Len(s)}
Reorderings(s) ==
    {[k \in 1..Len(s) |-> s[f[k]]] :
        f \in {g \in [1..Len(s) -> 1..Len(s)] : \A x, y \in 1..Len(s) : x # y => g[x] # g[y]}}

\* C26: every permutation of the input list yields the same set of roots.
C26_OrderIndependent ==
    AllowedPathsDone =>
        \A q \in Reorderings(call.paths) :
            Range(normalizeAllowedPaths(q)) = Range(ret[1])

\* a root kept first was removed when a root above it came later in the list
C26_Witness ==
    /\ AllowedPathsDone
    /\ call.paths = << <<"C", ":", "\\", "t", "\\", "x">>, <<"/", "d", "/", "p">>,
                       <<"c", ":", "/", "T">> >>
    /\ ret[1] = << <<"d", ":", "\\", "p">>, <<"c", ":", "\\", "t">> >>

\* C31: isPathAllowed does not depend on trailing separators: a candidate
\* that denotes the directory of an allowed root, or a directory below it, is
\* allowed whether the root, the candidate, both or neither end with a
\* separator.
C31_TrailingSeparatorIgnored ==
    (call.op = "isPathAllowed" /\ ret # <<>>) =>
        ((\E k \in 1..Len(call.allowedPaths) :
             IsAncestorOrSelf(toLowerCase(normalize(call.allowedPaths[k])),
                              toLowerCase(normalize(call.testPath)))) => ret[1])

----------------------------------------------------------------------------
(* utils/directoryValidator.ts: validateDirectories (SpecDirectories)       *)

\* the loop with invalidDirectories.push(normalizedDir) in place of push(dir)
RECURSIVE collectInvalidNormalized(_, _, _)
collectInvalidNormalized(directories, allowedPaths, invalidDirectories) ==
    IF directories = <<>> THEN invalidDirectories
    ELSE LET normalizedDir == normalizeWindowsPath(Head(directories))
         IN  collectInvalidNormalized(Tail(directories), allowedPaths,
                 IF ~isPathAllowed(normalizedDir, allowedPaths)
                 THEN Append(invalidDirectories, normalizedDir)
                 ELSE invalidDirectories)

\* the loop `for (const dir of directories)` of validateDirectories
\* (normalizeWindowsPath does not throw for a string)
RECURSIVE collectInvalid(_, _, _)
collectInvalid(directories, allowedPaths, invalidDirectories) ==
    IF directories = <<>> THEN invalidDirectories
    ELSE LET dir == Head(directories)
             normalizedDir == normalizeWindowsPath(dir)
         IN  collectInvalid(Tail(directories), allowedPaths,
                 IF ~isPathAllowed(normalizedDir, allowedPaths)
                 THEN Append(invalidDirectories, dir)
                 ELSE invalidDirectories)

validateDirectories(directories, allowedPaths) ==
    LET invalidDirectories == collectInvalid(directories, allowedPaths, <<>>)
    IN  [isValid |-> Len(invalidDirectories) = 0, invalidDirectories |-> invalidDirectories]

MaxDirectories == 3
DirectorySpellings ==
    {<<"C", ":", "\\", "t">>, <<"/", "c", "/", "t", "/", "x">>, <<"c", ":", "/", "T", "/">>,
     <<"/", "d", "/", "q">>, <<"C", ":", "\\", "w">>, <<"t">>}
DirectoryLists == SeqsUpTo(DirectorySpellings, MaxDirectories)
DirectoryRoots ==
    {<<>>,
     << <<"C", ":", "\\", "t">> >>,
     << <<"C", ":", "\\", "t">>, <<"D", ":", "\\", "q">> >>}

InitDirectories ==
    /\ call \in {[op |-> "validateDirectories", directories |-> D, allowedPaths |-> R] :
                    D \in DirectoryLists, R \in DirectoryRoots}
    /\ ret = <<>>
    /\ ServerIdle

CallValidateDirectories ==
    /\ call.op = "validateDirectories"
    /\ ret = <<>>
    /\ ret' = <<validateDirectories(call.directories, call.allowedPaths)>>
    /\ UNCHANGED <<poolVars, call, config, cwd, local, remote, requests, commandHistory>>

SpecDirectories == InitDirectories /\ [][CallValidateDirectories]_vars

DirectoriesDone == call.op = "validateDirectories" /\ ret # <<>>

\* C32: invalidDirectories is the input list, in its order and spelling,
\* restricted to the directories whose normalized form isPathAllowed refuses
\* for the roots; isValid is true iff it is empty; an empty input is valid
\* and with no roots every directory is invalid.
C32_InvalidDirectoriesExact ==
    DirectoriesDone =>
        LET refused(d) == ~isPathAllowed(normalizeWindowsPath(d), call.allowedPaths)
        IN  /\ ret[1].invalidDirectories = SelectSeq(call.directories, refused)
            /\ ret[1].isValid <=> ret[1].invalidDirectories = <<>>
            /\ call.directories = <<>> => ret[1].isValid
            /\ call.allowedPaths = <<>> => ret[1].invalidDirectories = call.directories

\* a list with allowed and refused directories in POSIX-style spelling: the
\* refused one is returned as it was written
C32_Witness ==
    /\ DirectoriesDone
    /\ call.directories = << <<"/", "c", "/", "t", "/", "x">>, <<"/", "d", "/", "q">>,
                             <<"c", ":", "/", "T", "/">> >>
    /\ call.allowedPaths = << <<"C", ":", "\\", "t">> >>
    /\ ret[1] = [isValid |-> FALSE, invalidDirectories |-> << <<"/", "d", "/", "q">> >>]

----------------------------------------------------------------------------
(* node:path resolve, for one argument, against the current directory       *)

\* pathRoot extended to the paths of fewer than two characters
rootOf(p) ==
    IF Len(p) >= 2 THEN pathRoot(p)
    ELSE [whole |-> FALSE, hasDevice |-> FALSE, device |-> <<>>,
          rootEnd |-> IF Len(p) = 1 /\ isPathSeparator(p[1]) THEN 1 ELSE 0,
          isAbsolute |-> Len(p) = 1 /\ isPathSeparator(p[1])]

\* path.win32.resolve(p) with process.cwd() = dir, an absolute path with a
\* drive: the device of p, or that of dir; the tail of p, after the tail of
\* dir when p is relative (on another drive: after that drive's root)
resolve(dir, p) ==
    LET pr == rootOf(p)
        dr == rootOf(dir)
        ptail == SubSeq(p, pr.rootEnd + 1, Len(p))
        dtail == SubSeq(dir, dr.rootEnd + 1, Len(dir))
        device == IF pr.hasDevice THEN pr.device ELSE dr.device
        sameDrive == ~pr.hasDevice \/ toLowerCase(pr.device) = toLowerCase(dr.device)
        tail == IF pr.isAbsolute \/ ~sameDrive THEN ptail ELSE dtail \o <<"\\">> \o ptail
    IN  IF pr.whole THEN pr.device
        ELSE device \o <<"\\">> \o normalizeString(tail, FALSE)

----------------------------------------------------------------------------
(* src/index.ts: CLIServer                                                 *)

MaxCommandLength == 8
MaxHistorySize == 2
MaxRequests == 2

\* a command of n characters that no check but the length check can refuse
Filler(n) == [i \in 1..n |-> "a"]

\* the shell profiles of the configuration: cmd blocks &, | and ;, powershell
\* leaves | out of its set, gitbash is disabled
CmdShell == [enabled |-> TRUE, hasBlockedOperators |-> TRUE,
             blockedOperators |-> << <<"&">>, <<"|">>, <<";">> >>]
PowerShell == [enabled |-> TRUE, hasBlockedOperators |-> TRUE,
               blockedOperators |-> << <<"&">>, <<";">> >>]
GitBash == [enabled |-> FALSE, hasBlockedOperators |-> FALSE, blockedOperators |-> <<>>]

ShellNames == {"cmd", "powershell", "gitbash"}
ConnectionIds == {"srv"}

\* the configurations the server is started with
Configs ==
    {[security |-> [maxCommandLength |-> MaxCommandLength,
                    blockedCommands |-> << <<"r", "m">>, <<"d", "e", "l">> >>,
                    blockedArguments |-> << <<"-", "r", "f">> >>,
                    allowedPaths |-> << <<"C", ":", "\\", "w">> >>,
                    restrictWorkingDirectory |-> flags[1],
                    logCommands |-> flags[2],
                    maxHistorySize |-> MaxHistorySize,
                    enableInjectionProtection |-> flags[3]],
      shells |-> [cmd |-> CmdShell, powershell |-> PowerShell, gitbash |-> GitBash],
      ssh |-> [enabled |-> flags[4], connections |-> ConnectionIds]] :
        flags \in {<<TRUE, TRUE, TRUE, TRUE>>, <<FALSE, FALSE, FALSE, TRUE>>,
                   <<TRUE, FALSE, TRUE, FALSE>>}}

WorkingDirectories ==
    {<<"C", ":", "\\", "w">>, <<"D", ":", "\\", "o">>, <<"C", ":", "\\", "w", "x">>}

\* the execute_command requests: the shell name, the raw command, the
\* workingDir argument (<<>> when the request gives none)
Dir == <<"d", "i", "r">>
LocalRequests ==
    {<<"cmd", Dir, <<>> >>,
     <<"gitbash", Dir, <<>> >>,
     <<"fish", Dir, <<>> >>,
     <<"gitbash", <<"r", "m", " ", "x">>, <<>> >>,
     <<"cmd", <<"a", "|", "b">>, <<>> >>,
     <<"powershell", <<"a", "|", "b">>, <<>> >>,
     <<"cmd", <<"r", "m", " ", "x">>, <<>> >>,
     <<"cmd", <<"\\", "b", "\\", "R", "m", ".", "e", "x", "e">>, <<>> >>,
     <<"cmd", <<"\\", "b", "\\", "r", "m", " ", "x">>, <<>> >>,
     <<"cmd", <<"l", "s", " ", "-", "r", "f">>, <<>> >>,
     <<"cmd", <<>>, <<>> >>,
     <<"cmd", <<" ">>, <<>> >>,
     <<"cmd", Filler(MaxCommandLength), <<>> >>,
     <<"cmd", Filler(MaxCommandLength + 1), <<>> >>,
     <<"cmd", Dir, <<"C", ":", "\\", "w", "\\", "s">> >>,
     <<"cmd", Dir, <<"C", ":", "\\", "w", "x">> >>,
     <<"cmd", Dir, <<"c", ":", "\\", "w">> >>,
     <<"cmd", Dir, <<"D", ":", "\\", "o">> >>,
     <<"cmd", Dir, <<"s">> >>}

\* the ssh_execute requests: the connection id and the raw command
RemoteRequests ==
    {<<"srv", Dir>>,
     <<"other", Dir>>,
     <<"other", <<"r", "m", " ", "x">> >>,
     <<"srv", <<"a", "|", "b">> >>,
     <<"srv", <<"r", "m", " ", "x">> >>,
     <<"srv", <<"\\", "b", "\\", "r", "m", " ", "x">> >>,
     <<"srv", <<"l", "s", " ", "-", "r", "f">> >>,
     <<"srv", <<>> >>,
     <<"srv", Filler(MaxCommandLength + 1)>>}

validateCommandWithoutArguments(cfg, shell, command) ==
    IF cfg.security.enableInjectionProtection
       /\ validateShellOperators(command, cfg.shells[shell])
    THEN "OperatorBlocked"
    ELSE IF isCommandBlocked(parseCommand(command).command, cfg.security.blockedCommands)
    THEN "CommandBlocked"
    ELSE IF Len(command) > cfg.security.maxCommandLength THEN "CommandTooLong"
    ELSE "ok"

\* validateCommand with the length check moved in front of the other checks
validateCommandLengthFirst(cfg, shell, command) ==
    IF Len(command) > cfg.security.maxCommandLength THEN "CommandTooLong"
    ELSE IF cfg.security.enableInjectionProtection
            /\ validateShellOperators(command, cfg.shells[shell])
    THEN "OperatorBlocked"
    ELSE LET parsed == parseCommand(command)
         IN  IF isCommandBlocked(parsed.command, cfg.security.blockedCommands)
             THEN "CommandBlocked"
             ELSE IF isArgumentBlocked(parsed.args, cfg.security.blockedArguments).value
             THEN "ArgumentBlocked"
             ELSE "ok"

\* CLIServer.validateCommand: "ok" or the error thrown
validateCommand(cfg, shell, command) ==
    IF cfg.security.enableInjectionProtection
       /\ validateShellOperators(command, cfg.shells[shell])
    THEN "OperatorBlocked"
    ELSE LET parsed == parseCommand(command)
             argCheck == isArgumentBlocked(parsed.args, cfg.security.blockedArguments)
         IN  IF isCommandBlocked(parsed.command, cfg.security.blockedCommands)
             THEN "CommandBlocked"
             ELSE IF argCheck.threw THEN "SyntaxError"
             ELSE IF argCheck.value THEN "ArgumentBlocked"
             ELSE IF Len(command) > cfg.security.maxCommandLength THEN "CommandTooLong"
             ELSE "ok"

\* this.validateCommand(shell, command) for every configuration and every
\* command of the requests, evaluated once
CommandChecks ==
    {<<request[1], request[2]>> : request \in {r \in LocalRequests : r[1] \in ShellNames}}
        \cup {<<"cmd", request[2]>> : request \in RemoteRequests}
validated ==
    [cfg \in Configs |->
        [check \in CommandChecks |-> validateCommand(cfg, check[1], check[2])]]

\* the working-directory check of the execute_command handler
isAllowedPath(cfg, workingDir) ==
    \E k \in 1..Len(cfg.security.allowedPaths) :
        startsWith(workingDir, cfg.security.allowedPaths[k])

\* resolve(...) / reject(...) of the handler's promise: a settled promise
\* keeps its outcome
settleNever(l, state, outcome) == l

settleAgain(l, state, outcome) == [l EXCEPT !.promise = state, !.result = outcome]

settle(l, state, outcome) ==
    IF l.promise = "pending" THEN [l EXCEPT !.promise = state, !.result = outcome] ELSE l

\* commandHistory.push(entry); n numbers the entries in the order of the pushes
pushHistory(history, entry) ==
    Append(history, [entry EXCEPT !.n = IF history = <<>> THEN 1 ELSE history[Len(history)].n + 1])

\* commandHistory.slice(-maxHistorySize) when the history is over the limit
trimHistory(cfg, history) ==
    IF Len(history) > cfg.security.maxHistorySize
    THEN SubSeq(history, Len(history) - cfg.security.maxHistorySize + 1, Len(history))
    ELSE history

NoResult == [kind |-> "none", by |-> "none", exitCode |-> 0, isError |-> FALSE, text |-> {}]

resultMessageWithoutStdout(code, output, error) ==
    IF code = 0 THEN (IF output THEN {"stdout"} ELSE {"placeholder"})
    ELSE {"exitCode"} \cup (IF error THEN {"stderr"} ELSE {})
                     \cup (IF ~error THEN {"nothing"} ELSE {})

\* resultMessage of the 'close' callback, as the set of its parts: the captured
\* stdout, the "no output" placeholder, the exit code line, the captured
\* stderr, the "no error message or output" line.  output / error are TRUE
\* when the captured text is not empty
resultMessage(code, output, error) ==
    IF code = 0 THEN (IF output THEN {"stdout"} ELSE {"placeholder"})
    ELSE {"exitCode"} \cup (IF error THEN {"stderr"} ELSE {})
                     \cup (IF output THEN {"stdout"} ELSE {})
                     \cup (IF ~error /\ ~output THEN {"nothing"} ELSE {})

RefusedAfterSpawn(id, shell, command, dir, error) ==
    [status |-> "rejected", id |-> id, shell |-> shell, command |-> command, dir |-> dir,
     workingDir |-> <<>>, error |-> error, spawnCalled |-> TRUE,
     promise |-> "rejected", result |-> [NoResult EXCEPT !.kind = error, !.by = "handler"],
     closed |-> TRUE, errored |-> FALSE, timer |-> "none", kills |-> 0,
     output |-> FALSE, stderr |-> FALSE, fired |-> <<>>, pushes |-> 0]

\* a request that the handler refused before it called spawn
Refused(id, shell, command, dir, error) ==
    [status |-> "rejected", id |-> id, shell |-> shell, command |-> command, dir |-> dir,
     workingDir |-> <<>>, error |-> error, spawnCalled |-> FALSE,
     promise |-> "rejected", result |-> [NoResult EXCEPT !.kind = error, !.by = "handler"],
     closed |-> TRUE, errored |-> FALSE, timer |-> "none", kills |-> 0,
     output |-> FALSE, stderr |-> FALSE, fired |-> <<>>, pushes |-> 0]


NullExitCode == -1

LocalIdle ==
    [status |-> "none", id |-> 0, shell |-> "", command |-> <<>>, dir |-> <<>>,
     workingDir |-> <<>>, error |-> "", spawnCalled |-> FALSE,
     promise |-> "none", result |-> NoResult,
     closed |-> TRUE, errored |-> FALSE, timer |-> "none", kills |-> 0,
     output |-> FALSE, stderr |-> FALSE, fired |-> <<>>, pushes |-> 0]

RemoteIdle ==
    [status |-> "none", id |-> 0, connectionId |-> "", command |-> <<>>, error |-> "",
     cause |-> "", getConnectionCalled |-> FALSE, executeCommandCalled |-> FALSE,
     result |-> NoResult, pushes |-> 0]

Init ==
    /\ call = NoCall
    /\ ret = <<>>
    /\ config \in Configs
    /\ cwd \in WorkingDirectories
    /\ local = LocalIdle
    /\ remote = RemoteIdle
    /\ requests = 0
    /\ commandHistory = <<>>
    /\ connections = EmptyPool
    /\ sessions = NoSessions

\* the server follows one request at a time: the next request is taken when
\* the child process and the remote command of the one before have ended, and
\* local / remote then describe the new request only
Quiescent == local.closed /\ remote.status \notin {"connecting", "executing"}

\* the execute_command handler up to the end of the promise executor: the
\* arguments are parsed, the command and the working directory are checked,
\* the shell is spawned, the callbacks and the timeout are set up.
\* spawnOutcome: "ok", "throws" (spawn throws) or "nostreams" (the child has
\* no stdout / stderr)
ExecuteCommand(shell, command, dir, spawnOutcome) ==
    /\ requests < MaxRequests
    /\ Quiescent
    /\ requests' = requests + 1
    /\ LET id == requests + 1
           v == validated[config][<<shell, command>>]
           workingDir == IF dir # <<>> THEN resolve(cwd, dir) ELSE cwd
           spawned == [LocalIdle EXCEPT !.status = "spawned", !.id = id, !.shell = shell,
                         !.command = command, !.dir = dir, !.workingDir = workingDir,
                         !.spawnCalled = TRUE]
       IN  local' =
             IF shell \notin {sh \in ShellNames : config.shells[sh].enabled}
             THEN Refused(id, shell, command, dir, "InvalidParams")
             ELSE IF v # "ok" THEN Refused(id, shell, command, dir, v)
             ELSE IF config.security.restrictWorkingDirectory /\ ~isAllowedPath(config, workingDir)
             THEN Refused(id, shell, command, dir, "OutsideAllowedPaths")
             ELSE IF spawnOutcome = "ok"
             THEN [spawned EXCEPT !.promise = "pending", !.closed = FALSE, !.timer = "armed"]
             ELSE [spawned EXCEPT !.promise = "rejected",
                     !.result = [NoResult EXCEPT !.kind = "InternalError", !.by = spawnOutcome]]
    /\ remote' = RemoteIdle
    /\ UNCHANGED <<poolVars, call, ret, config, cwd, commandHistory>>

\* shellProcess.stdout.on('data'): output is no longer empty
StdoutData ==
    /\ local.status = "spawned" /\ ~local.closed /\ ~local.output
    /\ local' = [local EXCEPT !.output = TRUE]
    /\ UNCHANGED <<poolVars, call, ret, config, cwd, remote, requests, commandHistory>>

\* shellProcess.stderr.on('data'): error is no longer empty
StderrData ==
    /\ local.status = "spawned" /\ ~local.closed /\ ~local.stderr
    /\ local' = [local EXCEPT !.stderr = TRUE]
    /\ UNCHANGED <<poolVars, call, ret, config, cwd, remote, requests, commandHistory>>

\* both 'close' listeners of the child: the result is built, stored in the
\* history and resolved; the timeout is cleared.  code is NullExitCode when
\* the child was ended by a signal (code ?? -1)
ProcessClose(code) ==
    /\ local.status = "spawned" /\ ~local.closed
    /\ LET logged == config.security.logCommands
           entry == [n |-> 0, id |-> local.id, by |-> "close", exitCode |-> code]
           outcome == [kind |-> IF code = 0 THEN "success" ELSE "failure", by |-> "close",
                       exitCode |-> code, isError |-> code # 0,
                       text |-> resultMessage(code, local.output, local.stderr)]
           l == settle(local, "resolved", outcome)
       IN  /\ commandHistory' = IF logged
                                THEN trimHistory(config, pushHistory(commandHistory, entry))
                                ELSE commandHistory
           /\ local' = [l EXCEPT !.closed = TRUE,
                          !.timer = IF local.timer = "armed" THEN "cleared" ELSE local.timer,
                          !.fired = Append(local.fired, "close"),
                          !.pushes = IF logged THEN local.pushes + 1 ELSE local.pushes]
    /\ UNCHANGED <<poolVars, call, ret, config, cwd, remote, requests>>

\* the 'error' listener of the child
ProcessError ==
    /\ local.status = "spawned" /\ ~local.closed /\ ~local.errored
    /\ LET logged == config.security.logCommands
           entry == [n |-> 0, id |-> local.id, by |-> "error", exitCode |-> NullExitCode]
           outcome == [kind |-> "InternalError", by |-> "error", exitCode |-> NullExitCode,
                       isError |-> TRUE, text |-> {"processError"}]
           l == settle(local, "rejected", outcome)
       IN  /\ commandHistory' = IF logged THEN pushHistory(commandHistory, entry)
                                ELSE commandHistory
           /\ local' = [l EXCEPT !.errored = TRUE,
                          !.fired = Append(local.fired, "error"),
                          !.pushes = IF logged THEN local.pushes + 1 ELSE local.pushes]
    /\ UNCHANGED <<poolVars, call, ret, config, cwd, remote, requests>>

TimeoutWithoutKill ==
    /\ local.status = "spawned" /\ local.timer = "armed"
    /\ local' = [settle(local, "rejected",
                        [kind |-> "InternalError", by |-> "timeout",
                         exitCode |-> NullExitCode, isError |-> TRUE, text |-> {"timedOut"}])
                   EXCEPT !.timer = "fired", !.fired = Append(local.fired, "timeout")]
    /\ UNCHANGED <<poolVars, call, ret, config, cwd, remote, requests, commandHistory>>

\* the setTimeout callback: the child is killed, the timeout is stored in the
\* history and the promise rejected
Timeout ==
    /\ local.status = "spawned" /\ local.timer = "armed"
    /\ LET logged == config.security.logCommands
           entry == [n |-> 0, id |-> local.id, by |-> "timeout", exitCode |-> NullExitCode]
           outcome == [kind |-> "InternalError", by |-> "timeout", exitCode |-> NullExitCode,
                       isError |-> TRUE, text |-> {"timedOut"}]
           l == settle(local, "rejected", outcome)
       IN  /\ commandHistory' = IF logged THEN pushHistory(commandHistory, entry)
                                ELSE commandHistory
           /\ local' = [l EXCEPT !.timer = "fired", !.kills = local.kills + 1,
                          !.fired = Append(local.fired, "timeout"),
                          !.pushes = IF logged THEN local.pushes + 1 ELSE local.pushes]
    /\ UNCHANGED <<poolVars, call, ret, config, cwd, remote, requests>>

\* the catch block of the ssh_execute handler
sshCatch(r, cause) ==
    [r EXCEPT !.status = "failed", !.error = "InternalError", !.cause = cause,
              !.result = [NoResult EXCEPT !.kind = "InternalError", !.by = cause, !.isError = TRUE],
              !.pushes = IF config.security.logCommands THEN r.pushes + 1 ELSE r.pushes]

sshCatchHistory(r, cause) ==
    IF config.security.logCommands
    THEN pushHistory(commandHistory, [n |-> 0, id |-> r.id, by |-> cause, exitCode |-> NullExitCode])
    ELSE commandHistory

\* the ssh_execute handler up to its first await: SSH support and the
\* connection id are checked, the command is validated against the cmd
\* profile, the pool is asked for the connection
SshExecute(connectionId, command) ==
    /\ requests < MaxRequests
    /\ Quiescent
    /\ requests' = requests + 1
    /\ LET r == [RemoteIdle EXCEPT !.id = requests + 1, !.connectionId = connectionId,
                   !.command = command]
           v == validated[config][<<"cmd", command>>]
       IN  IF ~config.ssh.enabled
           THEN /\ remote' = [r EXCEPT !.status = "rejected", !.error = "SshDisabled"]
                /\ UNCHANGED commandHistory
           ELSE IF connectionId \notin config.ssh.connections
           THEN /\ remote' = [r EXCEPT !.status = "rejected", !.error = "UnknownConnection"]
                /\ UNCHANGED commandHistory
           ELSE IF v # "ok"
           THEN /\ remote' = sshCatch(r, v)
                /\ commandHistory' = sshCatchHistory(r, v)
           ELSE /\ remote' = [r EXCEPT !.status = "connecting", !.getConnectionCalled = TRUE]
                /\ UNCHANGED commandHistory
    /\ local' = LocalIdle
    /\ UNCHANGED <<poolVars, call, ret, config, cwd>>

\* sshPool.getConnection resolves: connection.executeCommand is called
SshConnected ==
    /\ remote.status = "connecting"
    /\ remote' = [remote EXCEPT !.status = "executing", !.executeCommandCalled = TRUE]
    /\ UNCHANGED <<poolVars, call, ret, config, cwd, local, requests, commandHistory>>

\* sshPool.getConnection rejects
SshConnectFailed ==
    /\ remote.status = "connecting"
    /\ remote' = sshCatch(remote, "ConnectFailed")
    /\ commandHistory' = sshCatchHistory(remote, "ConnectFailed")
    /\ UNCHANGED <<poolVars, call, ret, config, cwd, local, requests>>

\* connection.executeCommand resolves with the exit code of the remote command
SshCommandDone(exitCode) ==
    /\ remote.status = "executing"
    /\ LET logged == config.security.logCommands
           entry == [n |-> 0, id |-> remote.id, by |-> "ssh", exitCode |-> exitCode]
       IN  /\ commandHistory' = IF logged
                                THEN trimHistory(config, pushHistory(commandHistory, entry))
                                ELSE commandHistory
           /\ remote' = [remote EXCEPT !.status = "done",
                           !.result = [kind |-> IF exitCode = 0 THEN "success" ELSE "failure",
                                       by |-> "ssh", exitCode |-> exitCode,
                                       isError |-> exitCode # 0, text |-> {"output"}],
                           !.pushes = IF logged THEN remote.pushes + 1 ELSE remote.pushes]
    /\ UNCHANGED <<poolVars, call, ret, config, cwd, local, requests>>

\* connection.executeCommand rejects
SshCommandFailed ==
    /\ remote.status = "executing"
    /\ remote' = sshCatch(remote, "ExecFailed")
    /\ commandHistory' = sshCatchHistory(remote, "ExecFailed")
    /\ UNCHANGED <<poolVars, call, ret, config, cwd, local, requests>>

Next ==
    \/ \E request \in LocalRequests, spawnOutcome \in {"ok", "throws", "nostreams"} :
            ExecuteCommand(request[1], request[2], request[3], spawnOutcome)
    \/ StdoutData
    \/ StderrData
    \/ \E code \in {0, 1, NullExitCode} : ProcessClose(code)
    \/ ProcessError
    \/ Timeout
    \/ \E request \in RemoteRequests : SshExecute(request[1], request[2])
    \/ SshConnected
    \/ SshConnectFailed
    \/ \E exitCode \in {0, 1} : SshCommandDone(exitCode)
    \/ SshCommandFailed

Spec == Init /\ [][Next]_vars

----------------------------------------------------------------------------
(* the claims about the request handlers (Spec)                             *)

\* the command checks of validateCommand, each one on its own
PassedCommandChecks(shell, command) ==
    LET parsed == parseCommand(command)
        argCheck == isArgumentBlocked(parsed.args, config.security.blockedArguments)
    IN  /\ config.security.enableInjectionProtection =>
              ~validateShellOperators(command, config.shells[shell])
        /\ ~isCommandBlocked(parsed.command, config.security.blockedCommands)
        /\ ~argCheck.threw /\ ~argCheck.value
        /\ Len(command) <= config.security.maxCommandLength

\* C1: the shell process is spawned only after the command has passed the
\* operator check (when injection protection is enabled), the blocked-command
\* check, the blocked-argument check and the length check and, when
\* restrictWorkingDirectory is true, after the working directory has passed
\* the allow-list check of the handler; the pool's getConnection and
\* executeCommand are invoked only after the same command checks have passed.
C1_ChecksBeforeSpawn ==
    /\ local.spawnCalled =>
          /\ local.shell \in ShellNames /\ config.shells[local.shell].enabled
          /\ PassedCommandChecks(local.shell, local.command)
          /\ config.security.restrictWorkingDirectory =>
                isAllowedPath(config, local.workingDir)
    /\ (remote.getConnectionCalled \/ remote.executeCommandCalled) =>
          PassedCommandChecks("cmd", remote.command)

\* a process is spawned in a requested directory with every check switched on
C1_Witness ==
    /\ local.spawnCalled /\ local.promise = "pending" /\ local.dir # <<>>
    /\ config.security.restrictWorkingDirectory
    /\ config.security.enableInjectionProtection

\* the program named at the start of a command: the first token of the
\* quote-aware split on whitespace
Executable(command) ==
    LET tokens == QuoteAwareTokens(trim(command), 1, <<>>, <<>>, FALSE, "")
    IN  IF tokens = <<>> THEN <<>> ELSE tokens[1]

NamesBlockedProgram(command) ==
    \E k \in 1..Len(config.security.blockedCommands) :
        BaseNameOf(Executable(command)) = toLowerCase(config.security.blockedCommands[k])

\* C2: no process is spawned for a request whose executable (bare name, name
\* with extension or full path, followed by any arguments) has a base name
\* listed in blockedCommands.
C2_BlockedProgramNeverSpawned ==
    local.spawnCalled => ~NamesBlockedProgram(local.command)

\* C9: execute_command and ssh_execute reject an empty or whitespace-only
\* command: no process is spawned and the pool is not asked for a connection.
C9_EmptyCommandRejected ==
    /\ local.spawnCalled => trim(local.command) # <<>>
    /\ remote.getConnectionCalled => trim(remote.command) # <<>>

\* C10: under every interleaving of the 'close' event, the 'error' event and
\* the timeout timer, the outcome returned to the caller is the one of the
\* first of the three to fire; one that fires later does not change it.
C10_FirstFinalizes ==
    (local.spawnCalled /\ local.fired # <<>>) =>
        /\ local.promise = (IF local.fired[1] = "close" THEN "resolved" ELSE "rejected")
        /\ local.result.by = local.fired[1]
        /\ local.result.kind = (IF local.fired[1] # "close" THEN "InternalError"
                                ELSE IF local.result.exitCode = 0 THEN "success" ELSE "failure")

\* the timer fires first, then the child reports an error and closes
C10_Witness ==
    /\ local.fired = <<"timeout", "error", "close">>
    /\ local.result.by = "timeout"

\* a local execution: spawn returned a child with its streams
Executing == local.spawnCalled /\ local.result.by \notin {"throws", "nostreams"}

\* C11: a timeout timer is armed when the process is spawned; when it expires
\* before the process closes, kill is invoked and a Timeout failure delivered
\* to the caller comes with that kill; when the process closes first, the timer
\* is disarmed, the timeout callback can no longer run and kill is never
\* invoked for that execution.
C11_TimerKillsOrIsDisarmed ==
    Executing =>
        /\ local.timer \in {"armed", "fired", "cleared"}
        /\ local.promise = "pending" => local.timer = "armed"
        /\ local.timer = "fired" <=> local.kills = 1
        /\ local.result.by = "timeout" => (local.kills = 1 /\ local.fired[1] = "timeout")
        /\ local.closed => (local.timer # "armed" /\ ~ENABLED Timeout)
        /\ (local.closed /\ "timeout" \notin {local.fired[k] : k \in 1..Len(local.fired)}) =>
               (local.timer = "cleared" /\ local.kills = 0)

\* the timer expired first: the child was killed, the caller got the timeout,
\* and the child closed afterwards
C11_Witness ==
    /\ Executing
    /\ local.fired = <<"timeout", "close">>
    /\ local.kills = 1 /\ local.result.by = "timeout"

\* C12: exit code 0 gives a success carrying the captured stdout, or the "no
\* output" placeholder when stdout is empty; a non-zero exit gives a failure
\* (isError) carrying the exit code and the captured stderr and stdout; a
\* spawn-time failure (spawn throws, no streams, or the 'error' event) gives an
\* InternalError and never a non-zero-exit result.
C12_OutcomeClassified ==
    /\ (Executing /\ local.result.by = "close") =>
          /\ local.result.exitCode = 0 =>
                /\ local.result.kind = "success" /\ ~local.result.isError
                /\ local.result.text = (IF local.output THEN {"stdout"} ELSE {"placeholder"})
          /\ local.result.exitCode # 0 =>
                /\ local.result.kind = "failure" /\ local.result.isError
                /\ "exitCode" \in local.result.text
                /\ local.stderr <=> "stderr" \in local.result.text
                /\ local.output <=> "stdout" \in local.result.text
    /\ (local.spawnCalled /\ (~Executing \/ local.errored)) =>
          /\ local.promise = "rejected"
          /\ local.result.kind = "InternalError"

\* a child that wrote to both streams exits with a non-zero code
C12_Witness ==
    /\ Executing /\ local.result.by = "close" /\ local.result.exitCode = 1
    /\ local.output /\ local.stderr
    /\ local.result.text = {"exitCode", "stderr", "stdout"}

\* the timeout timer eventually fires
LiveSpec == Spec /\ WF_vars(Timeout)

\* C13: assuming the timeout timer eventually fires, every execute_command
\* request that passed validation and was spawned eventually completes with a
\* success or a failure; no request stays pending forever.
C13_EventuallyCompletes ==
    (local.promise = "pending") ~> (local.promise \in {"resolved", "rejected"})

\* the request was completed by the timer while the child never closed
C13_Witness ==
    /\ Executing /\ ~local.closed
    /\ local.promise = "rejected" /\ local.result.by = "timeout"

----------------------------------------------------------------------------
(* CLIServer.validateCommand as a function of its inputs (SpecValidate)     *)

MaxValidatePieces == 4
ValidatePieces ==
    {<<"r", "m">>, <<" ">>, <<"-", "r", "f">>, <<"|">>, <<"a", "a", "a", "a", "a">>}
ValidateCommands == {Flatten(ps) : ps \in SeqsUpTo(ValidatePieces, MaxValidatePieces)}

InitValidate ==
    /\ call \in {[op |-> "validateCommand", config |-> cfg, shell |-> sh, command |-> c] :
                    cfg \in Configs, sh \in {"cmd", "powershell"}, c \in ValidateCommands}
    /\ ret = <<>>
    /\ ServerIdle

CallValidateCommand ==
    /\ call.op = "validateCommand"
    /\ ret = <<>>
    /\ ret' = <<validateCommand(call.config, call.shell, call.command)>>
    /\ UNCHANGED <<poolVars, call, config, cwd, local, remote, requests, commandHistory>>

SpecValidate == InitValidate /\ [][CallValidateCommand]_vars

ValidateDone == call.op = "validateCommand" /\ ret # <<>>

\* C39: the error of validateCommand is that of the first failing check in
\* the order operator check, blocked-command check, blocked-argument check,
\* length check, whatever the later checks would say; a command of exactly
\* maxCommandLength characters passes the length check and one of
\* maxCommandLength + 1 characters fails it.
C39_FirstFailingCheck ==
    ValidateDone =>
        LET security == call.config.security
            parsed == parseCommand(call.command)
            operatorFails == /\ security.enableInjectionProtection
                             /\ validateShellOperators(call.command,
                                                       call.config.shells[call.shell])
            commandFails == isCommandBlocked(parsed.command, security.blockedCommands)
            argumentFails == isArgumentBlocked(parsed.args, security.blockedArguments).value
            lengthFails == Len(call.command) > security.maxCommandLength
        IN  /\ operatorFails => ret[1] = "OperatorBlocked"
            /\ (~operatorFails /\ commandFails) => ret[1] = "CommandBlocked"
            /\ (~operatorFails /\ ~commandFails /\ argumentFails) =>
                   ret[1] = "ArgumentBlocked"
            /\ (~operatorFails /\ ~commandFails /\ ~argumentFails /\ lengthFails) =>
                   ret[1] = "CommandTooLong"
            /\ (~operatorFails /\ ~commandFails /\ ~argumentFails /\ ~lengthFails) =>
                   ret[1] = "ok"
            /\ lengthFails <=> Len(call.command) >= security.maxCommandLength + 1
            /\ Len(call.command) = security.maxCommandLength => ret[1] # "CommandTooLong"

\* a command that the blocked-command check and the length check both refuse
\* is answered with the blocked-command error
C39_Witness ==
    /\ ValidateDone
    /\ call.command = <<"r", "m", " ", "-", "r", "f", "a", "a", "a", "a", "a">>
    /\ isCommandBlocked(parseCommand(call.command).command,
                        call.config.security.blockedCommands)
    /\ Len(call.command) > call.config.security.maxCommandLength
    /\ ret = <<"CommandBlocked">>

\* the errors validateCommand throws
ValidationErrors == {"OperatorBlocked", "CommandBlocked", "ArgumentBlocked", "CommandTooLong"}

\* C23: a request whose command fails validation is answered with the
\* validation error itself, remote (ssh_execute) as local (execute_command):
\* the error reported is the one validateCommand threw, never an execution
\* or transport error.
C23_ValidationErrorSurfaced ==
    /\ local.error \in ValidationErrors =>
            (local.result.kind = local.error /\ ~local.spawnCalled)
    /\ remote.cause \in ValidationErrors =>
            (remote.error = remote.cause /\ remote.result.kind # "InternalError")

C34_HistoryBounded ==
    config.security.logCommands =>
        Len(commandHistory) <= config.security.maxHistorySize

\* C36: an execute_command request appends at most one entry to the command
\* history, and the process is killed only by the timeout that finalized the
\* outcome: a callback that fires after the outcome was finalized appends
\* nothing and kills nothing.
C36_LateCallbacksInert ==
    /\ local.pushes <= 1
    /\ local.kills > 0 => local.result.by = "timeout"

\* C35: with restriction enabled, a request that passed the shell and command
\* checks and gives a working directory d is accepted iff
\* isPathAllowed(normalizeWindowsPath(d), allowedPaths) is true.
C35_HandlerDecidesAsPolicy ==
    (/\ config.security.restrictWorkingDirectory
     /\ local.status # "none" /\ local.dir # <<>>
     /\ local.error \in {"", "OutsideAllowedPaths"}) =>
        (local.error = "" <=>
            isPathAllowed(normalizeWindowsPath(local.dir), config.security.allowedPaths))

\* the directory lies under one of the allowed roots: it is the root or
\* starts with the root followed by a separator, case folded
UnderAllowedRoot(cfg, workingDir) ==
    \E k \in 1..Len(cfg.security.allowedPaths) :
        LET root == toLowerCase(cfg.security.allowedPaths[k])
            dir == toLowerCase(workingDir)
        IN  dir = root \/ startsWith(dir, root \o <<"\\">>)

\* C38: a request without a working directory runs in the server's current
\* directory, and with restriction enabled a shell is spawned for it only if
\* the current directory lies under an allowed root.
C38_CurrentDirectoryChecked ==
    (local.spawnCalled /\ local.dir = <<>>) =>
        /\ local.workingDir = cwd
        /\ config.security.restrictWorkingDirectory => UnderAllowedRoot(config, cwd)

\* C30: no shell is spawned for a request whose working directory is not an
\* absolute path, whether or not the directory restriction is enabled, nor,
\* when it is enabled, for one whose directory lies under no allowed root:
\* such a request is refused, a relative directory is never resolved and
\* used.
C30_WorkingDirectoryEnforced ==
    (local.spawnCalled /\ local.dir # <<>>) =>
        /\ isAbsolute(local.dir)
        /\ config.security.restrictWorkingDirectory =>
               UnderAllowedRoot(config, local.workingDir)

----------------------------------------------------------------------------
(* src/utils/ssh.ts: SSHConnection and SSHConnectionPool (SpecPool)         *)

MaxCallers == 2
MaxConnecting == 2
MaxPoolCalls == 3
MaxConcurrentSessions == 1

\* the events one transport drop emits, in the order ssh2 emits them
DropEvents == {<<"error", "end", "close">>, <<"error", "close">>, <<"end", "close">>,
               <<"close">>}

serverUnchanged == UNCHANGED <<call, ret, config, cwd, local, remote, commandHistory>>

\* one more call of the pool's or a session's API (requests counts them)
poolCall == requests < MaxPoolCalls /\ requests' = requests + 1
poolEvent == UNCHANGED requests

callers(s) == s.awaitingGet + s.awaitingExec + s.execs

\* SSHConnection.scheduleReconnect
scheduleReconnect(s) ==
    LET live == IF s.reconnectTimer = "live" THEN s.liveTimers - 1 ELSE s.liveTimers
    IN  IF s.recent
        THEN [s EXCEPT !.liveTimers = live + 1, !.reconnectTimer = "live"]
        ELSE [s EXCEPT !.liveTimers = live,
                       !.reconnectTimer = IF s.reconnectTimer = "null" THEN "null" ELSE "dead"]

\* one of the 'error' / 'end' / 'close' listeners of setupClientEvents
clientEvent(s) == scheduleReconnect([s EXCEPT !.isConnected = FALSE])

\* the 'error' listeners that the connect() calls registered: every pending
\* connect() promise is rejected, and with it the executeCommand calls that
\* await one
rejectConnects(s) ==
    [s EXCEPT !.awaitingGet = 0, !.awaitingExec = 0,
              !.lastExec = IF s.awaitingExec > 0 THEN "rejected" ELSE s.lastExec]

\* the profile the session was constructed with
profile(s) == config.ssh.connections[s.id]

\* connect(): the branches of "Handle authentication" that go on to
\* client.connect() (the key file of a profile with a privateKeyPath is read)
authenticates(s) == profile(s).privateKeyPath # "" \/ profile(s).password # ""

\* connect() leaves its promise pending: a connect attempt is in flight
awaitsConnect(s) == ~s.isConnected /\ authenticates(s)

connectWithoutCredentials(s) ==
    IF s.isConnected THEN s
    ELSE [s EXCEPT !.connecting = s.connecting + 1]

\* SSHConnection.connect up to client.connect(): nothing when isConnected,
\* the rejection 'No authentication method provided' for a profile with
\* neither a key path nor a password, else one more attempt on the client
connect(s) ==
    IF s.isConnected THEN s
    ELSE IF ~authenticates(s) THEN [s EXCEPT !.noAuth = TRUE]
    ELSE [s EXCEPT !.connecting = s.connecting + 1]

\* SSHConnection.disconnect
disconnect(s) ==
    LET cleared == IF s.reconnectTimer = "null" THEN s
                   ELSE [s EXCEPT !.reconnectTimer = "null",
                                  !.liveTimers = IF s.reconnectTimer = "live"
                                                 THEN s.liveTimers - 1 ELSE s.liveTimers]
        ended == IF cleared.isConnected
                 THEN [cleared EXCEPT !.isConnected = FALSE, !.open = FALSE,
                                      !.events = cleared.events \o <<"end", "close">>]
                 ELSE cleared
    IN  ended

\* the connection profiles of config.ssh.connections: the credentials of a
\* profile (an empty string: the property is absent)
WithPassword == [password |-> "secret", privateKeyPath |-> ""]
WithKey == [password |-> "", privateKeyPath |-> "id_rsa"]
WithBoth == [password |-> "secret", privateKeyPath |-> "id_rsa"]
WithoutCredentials == [password |-> "", privateKeyPath |-> ""]

Profiles ==
    {[srv |-> WithPassword, alt |-> WithKey],
     [srv |-> WithBoth, alt |-> WithoutCredentials]}

InitPool ==
    /\ call = NoCall
    /\ ret = <<>>
    /\ config \in {[ssh |-> [maxConcurrentSessions |-> MaxConcurrentSessions,
                             connections |-> c]] : c \in Profiles}
    /\ cwd = <<>>
    /\ local = [status |-> "none"]
    /\ remote = [status |-> "none"]
    /\ requests = 0
    /\ commandHistory = <<>>
    /\ connections = EmptyPool
    /\ sessions = NoSessions

\* SSHConnectionPool.getConnection up to its await
GetConnection(id) ==
    /\ poolCall
    /\ IF connections[id] = 0
       THEN \E o \in SessionObjects :
               /\ ~sessions[o].created
               /\ \A n \in SessionObjects : n < o => sessions[n].created
               /\ connections' = [connections EXCEPT ![id] = o]
               /\ LET s == [NoSession EXCEPT !.created = TRUE, !.id = id]
                  IN  sessions' = [sessions EXCEPT ![o] =
                          [connect(s) EXCEPT
                              !.awaitingGet = IF awaitsConnect(s) THEN 1 ELSE 0]]
       ELSE LET o == connections[id]
                s == sessions[o]
            IN  /\ ~s.isConnected
                /\ callers(s) < MaxCallers /\ s.connecting < MaxConnecting
                /\ sessions' = [sessions EXCEPT ![o] =
                       [connect(s) EXCEPT
                           !.awaitingGet = IF awaitsConnect(s) THEN s.awaitingGet + 1
                                           ELSE s.awaitingGet,
                           !.autoAttempt = IF s.autoAttempt = "failed" THEN "none"
                                           ELSE s.autoAttempt]]
                /\ UNCHANGED connections
    /\ serverUnchanged

\* SSHConnection.executeCommand up to its await or to client.exec, called on
\* the session the pool holds for id
SessionExecuteCommand(id) ==
    /\ poolCall
    /\ connections[id] # 0
    /\ LET o == connections[id]
           s == [sessions[o] EXCEPT !.recent = TRUE, !.lastExec = "none"]
       IN  /\ callers(s) < MaxCallers
           /\ s.isConnected \/ s.connecting < MaxConnecting
           /\ sessions' = [sessions EXCEPT ![o] =
                  IF s.isConnected THEN [s EXCEPT !.execs = s.execs + 1]
                  ELSE IF ~awaitsConnect(s) THEN [connect(s) EXCEPT !.lastExec = "rejected"]
                  ELSE [connect(s) EXCEPT !.awaitingExec = s.awaitingExec + 1,
                                          !.autoAttempt = IF s.autoAttempt = "failed" THEN "none"
                                                          ELSE s.autoAttempt]]
    /\ UNCHANGED connections
    /\ serverUnchanged

\* the client emits 'ready': the listeners of every connect() call run, the
\* awaiting getConnection calls return the session, the awaiting
\* executeCommand calls go on to client.exec
TransportReady(o) ==
    /\ poolEvent
    /\ sessions[o].connecting > 0
    /\ LET s == sessions[o]
       IN  sessions' = [sessions EXCEPT ![o] =
               [s EXCEPT !.connecting = s.connecting - 1, !.open = TRUE, !.isConnected = TRUE,
                         !.recent = TRUE, !.settled = TRUE, !.dropped = FALSE,
                         !.autoAttempt = "none",
                         !.awaitingGet = 0, !.awaitingExec = 0,
                         !.execs = s.execs + s.awaitingExec]]
    /\ UNCHANGED connections
    /\ serverUnchanged

\* a connect attempt fails: the client emits 'error' (the listener of
\* setupClientEvents and the listeners of the connect() calls run) and will
\* emit 'close'
TransportConnectFailed(o) ==
    /\ poolEvent
    /\ sessions[o].connecting > 0
    /\ sessions[o].events = <<>>
    /\ LET s == sessions[o]
           t == rejectConnects(clientEvent(s))
       IN  sessions' = [sessions EXCEPT ![o] =
               [t EXCEPT !.connecting = s.connecting - 1, !.settled = TRUE,
                         !.events = <<"close">>,
                         !.autoAttempt = IF s.autoAttempt = "running" /\ s.connecting = 1
                                         THEN "failed" ELSE s.autoAttempt]]
    /\ UNCHANGED connections
    /\ serverUnchanged

\* the established transport is lost: the client will emit the events of evs
TransportDrop(o, evs) ==
    /\ poolEvent
    /\ sessions[o].open
    /\ sessions[o].events = <<>>
    /\ sessions' = [sessions EXCEPT ![o] =
           [@ EXCEPT !.open = FALSE, !.events = evs, !.dropped = TRUE,
                     !.autoAttempt = "none"]]
    /\ UNCHANGED connections
    /\ serverUnchanged

\* the client delivers the next 'error' / 'end' / 'close' event
TransportEvent(o) ==
    /\ poolEvent
    /\ sessions[o].events # <<>>
    /\ LET s == sessions[o]
           t == clientEvent(s)
       IN  sessions' = [sessions EXCEPT ![o] =
               [(IF Head(s.events) = "error" THEN rejectConnects(t) ELSE t)
                   EXCEPT !.events = Tail(s.events)]]
    /\ UNCHANGED connections
    /\ serverUnchanged

\* the callback of the reconnect timer, 5 seconds after it was set (the events
\* of the drop were delivered long before): this.connect()
ReconnectTimer(o) ==
    /\ poolEvent
    /\ sessions[o].liveTimers > 0
    /\ sessions[o].events = <<>>
    /\ sessions[o].isConnected \/ sessions[o].connecting < MaxConnecting
    /\ LET s == sessions[o]
           fired == [s EXCEPT !.liveTimers = s.liveTimers - 1,
                              !.reconnectTimer = IF s.reconnectTimer = "live" /\ s.liveTimers = 1
                                                 THEN "dead" ELSE s.reconnectTimer]
       IN  sessions' = [sessions EXCEPT ![o] =
               IF s.isConnected THEN fired
               ELSE [connect(fired) EXCEPT !.autoAttempt = "running"]]
    /\ UNCHANGED connections
    /\ serverUnchanged

\* the stream of a remote command emits 'close' (the command ended, or the
\* client closed the channels of a transport that ended): the promise of
\* executeCommand is resolved with the output and code || 0
ExecStreamClose(o) ==
    /\ poolEvent
    /\ sessions[o].execs > 0
    /\ sessions' = [sessions EXCEPT ![o] =
           [@ EXCEPT !.execs = @ - 1, !.recent = TRUE, !.lastExec = "resolved"]]
    /\ UNCHANGED connections
    /\ serverUnchanged

\* 30 minutes pass without activity on the session
ActivityWindowPasses(o) ==
    /\ poolEvent
    /\ sessions[o].created /\ sessions[o].recent
    /\ sessions[o].events = <<>> /\ callers(sessions[o]) = 0
    /\ sessions' = [sessions EXCEPT ![o] = [@ EXCEPT !.recent = FALSE]]
    /\ UNCHANGED connections
    /\ serverUnchanged

\* SSHConnectionPool.closeConnection
CloseConnection(id) ==
    /\ poolCall
    /\ IF connections[id] = 0
       THEN UNCHANGED <<connections, sessions>>
       ELSE /\ sessions' = [sessions EXCEPT ![connections[id]] = disconnect(@)]
            /\ connections' = [connections EXCEPT ![id] = 0]
    /\ serverUnchanged

\* SSHConnectionPool.closeAll
CloseAll ==
    /\ poolCall
    /\ \E id \in PoolIds : connections[id] # 0
    /\ sessions' = [o \in SessionObjects |->
                      IF \E id \in PoolIds : connections[id] = o
                      THEN disconnect(sessions[o]) ELSE sessions[o]]
    /\ connections' = EmptyPool
    /\ serverUnchanged

NextPool ==
    \/ \E id \in PoolIds : GetConnection(id)
    \/ \E id \in PoolIds : SessionExecuteCommand(id)
    \/ \E o \in SessionObjects : TransportReady(o)
    \/ \E o \in SessionObjects : TransportConnectFailed(o)
    \/ \E o \in SessionObjects, evs \in DropEvents : TransportDrop(o, evs)
    \/ \E o \in SessionObjects : TransportEvent(o)
    \/ \E o \in SessionObjects : ReconnectTimer(o)
    \/ \E o \in SessionObjects : ExecStreamClose(o)
    \/ \E o \in SessionObjects : ActivityWindowPasses(o)
    \/ \E id \in PoolIds : CloseConnection(id)
    \/ CloseAll

SpecPool == InitPool /\ [][NextPool]_vars

----------------------------------------------------------------------------
(* the claims about the SSH sessions and the pool (SpecPool)                *)

\* the session was torn down: disconnect() was called on it by
\* closeConnection or closeAll, which also removed it from the pool
TornDown(o) == sessions[o].created /\ connections[sessions[o].id] # o

\* C14: after an explicit disconnect (closeConnection) or closeAll, no
\* reconnect is scheduled or attempted for the torn-down session, also when
\* the transport's 'end' or 'close' event fires after the disconnect.
C14_NoReconnectAfterDisconnect ==
    \A o \in SessionObjects :
        TornDown(o) => (sessions[o].liveTimers = 0 /\ sessions[o].autoAttempt # "running")

\* C15: when an automatic reconnect attempt of a session has failed, no
\* further reconnect timer is pending for that session (until a later
\* executeCommand or getConnection connects on demand).
C15_NoRetryAfterFailedReconnect ==
    \A o \in SessionObjects :
        sessions[o].autoAttempt = "failed" => sessions[o].liveTimers = 0

\* C16: a session has at most one pending reconnect timer at every moment; an
\* event of a drop delivered when the last activity is outside the window
\* leaves no timer pending; and the reconnect timer makes one attempt per
\* drop: when its callback starts a connect attempt after a drop of the
\* established transport, it is the first automatic attempt since that drop.
C16_OneReconnectPerDrop ==
    [][\A o \in SessionObjects :
          /\ sessions'[o].liveTimers <= 1
          /\ (Len(sessions'[o].events) < Len(sessions[o].events) /\ ~sessions[o].recent) =>
                sessions'[o].liveTimers = 0
          /\ (sessions[o].dropped /\ sessions'[o].autoAttempt = "running"
                /\ sessions'[o].connecting > sessions[o].connecting
                /\ sessions'[o].liveTimers < sessions[o].liveTimers) =>
                sessions[o].autoAttempt = "none"]_vars

\* C17: while the first connect attempt of a never-used session has not ended,
\* concurrent getConnection calls for its id have started one connect attempt
\* only.
C17_OneConnectPerBurst ==
    \A o \in SessionObjects :
        (sessions[o].created /\ ~sessions[o].settled) => sessions[o].connecting <= 1

\* C18: closeConnection(id) of a pooled session leaves no pending reconnect
\* timer, no established or connecting transport and no pool entry for id;
\* closeConnection of an id with no entry changes nothing.
C18_DisconnectClosesSession ==
    [][\A id \in PoolIds :
          (requests' = requests + 1 /\ connections[id] # 0 /\ connections'[id] = 0) =>
              LET t == sessions'[connections[id]]
              IN  /\ t.liveTimers = 0 /\ t.reconnectTimer = "null"
                  /\ ~t.open /\ ~t.isConnected /\ t.connecting = 0]_vars

\* C19: the pool never holds more sessions than maxConcurrentSessions.
C19_SessionCeiling ==
    Cardinality({id \in PoolIds : connections[id] # 0}) <= config.ssh.maxConcurrentSessions

\* C20: a session has at most one remote command in flight at every moment.
C20_OneCommandInFlight ==
    \A o \in SessionObjects : sessions[o].execs <= 1

\* C21: a remote command that is in flight when its session is disconnected
\* or loses its transport does not complete as a result: when its promise
\* settles on the closed transport, it is rejected (ConnectionLost).
C21_InFlightFailsOnDisconnect ==
    [][\A o \in SessionObjects :
          (sessions[o].execs > 0 /\ ~sessions[o].open
              /\ sessions'[o].execs < sessions[o].execs) =>
                sessions'[o].lastExec = "rejected"]_vars

\* C22: a session of a profile with neither a password nor a private key
\* path is never connected and never has a connect attempt in flight or a
\* caller awaiting one, a connect() call on it is rejected with the
\* configuration error, and no step changes the stored profiles.
C22_NoCredentialsNoConnect ==
    [][/\ \A o \in SessionObjects :
             (sessions'[o].created /\ profile(sessions'[o]) = WithoutCredentials) =>
                 /\ sessions'[o].noAuth
                 /\ sessions'[o].connecting = 0 /\ ~sessions'[o].open
                 /\ ~sessions'[o].isConnected
                 /\ sessions'[o].awaitingGet = 0 /\ sessions'[o].awaitingExec = 0
                 /\ sessions'[o].execs = 0 /\ sessions'[o].lastExec # "resolved"
       /\ config'.ssh.connections = config.ssh.connections]_vars

\* a session of a profile without credentials exists (getConnection called
\* connect() on it) and an executeCommand on it was rejected
C22_Witness ==
    \E o \in SessionObjects :
        /\ sessions[o].created /\ profile(sessions[o]) = WithoutCredentials
        /\ sessions[o].noAuth /\ sessions[o].lastExec = "rejected"
        /\ connections[sessions[o].id] = o

\* C37: at every moment a session has at most one connect attempt in flight
\* on its client, whoever started it (getConnection, executeCommand or the
\* reconnect timer).
C37_OneConnectInFlight ==
    \A o \in SessionObjects : sessions[o].connecting <= 1

====
